---- MODULE Spec2Model ----
(***************************************************************************)
(* Decoding state machine of gemma/gm/text/_sampler_impl.py: one Sampler,  *)
(* one call of Sampler.__call__ split into its set-up (Call), the steps of *)
(* the jax.lax.while_loop of _sample_fn (SampleStep) and the extraction    *)
(* that follows the loop (Finish).                                         *)
(*                                                                         *)
(* Rows of a batch are numbered 1..bsz, buffer columns 0..L-1 as in the    *)
(* source.  A prompt string is represented by the id sequence the          *)
(* tokenizer encodes it to.                                                *)
(***************************************************************************)
EXTENDS Integers, Sequences, FiniteSets, TLC

(* ---------------- bounds of the model ---------------- *)
MaxBatch == 2
MaxEnc == 1
MaxGen == 3
VocabSize == 3
MaxCells == 8
MaxCellsLive == 6
CacheLength == 3
MaxWindow == 5
MaxCalls == 2
MaxCellsCalls == 4
MaxCellsConc == 3

(* ---------------- tokenizer special ids ---------------- *)
PAD == 0
EOS == 1
BOS == 2

Vocab == 0 .. (VocabSize - 1)

\* -jnp.inf; every logit the transformer returns is modelled as >= 0.
NegInf == -1

\* Python's None for forbidden_token_ids (a tuple that holds no vocabulary id).
None == << -1 >>

\* Python's None for logits_buffer (a buffer has at least one row).
NoBuffer == << >>

Min(a, b) == IF a <= b THEN a ELSE b
Max(a, b) == IF a >= b THEN a ELSE b

\* Python slice f[a:b] of a 0-based array f with n entries, as a sequence.
PySlice(f, n, a, b) ==
  LET lo == Min(Max(a, 0), n)
      hi == Min(Max(b, 0), n)
  IN  IF hi <= lo THEN << >> ELSE [k \in 1 .. (hi - lo) |-> f[lo + k - 1]]

VARIABLES
  pc,                   \* position of the call: idle, loop, returned, raised
  self_rng,             \* Sampler._rng
  echo,                 \* argument echo of __call__
  return_logits,        \* argument return_logits of __call__
  total_generation_steps,
  all_input_ids,        \* tokenized prompts, one sequence per row
  decoding_step,        \* _SamplingState fields
  num_input_tokens,
  token_buffer,
  positions,
  cache,
  done,
  total_sampling_steps,
  logits_buffer,
  forbidden_token_ids,
  rng,
  masked_token_buffer,  \* locals and result of __call__
  out_tokens,
  out_logits,
  gen,                  \* history: per row, the candidates of the steps past prompt replay
  steps,                \* history: number of iterations the while_loop has executed
  cache_length,         \* Sampler.cache_length
  forbidden_tokens,     \* argument forbidden_tokens of __call__
  attention_mask,       \* value returned by _compute_attention_masks called on its own
  calls,                \* history: number of calls of __call__ so far
  policy_keys,          \* history: the keys handed to the sampling policy so far
  key_reused,           \* history: some key was handed to the sampling policy twice
  call2                 \* sampling state of a second call running on the same Sampler

vars == << pc, self_rng, echo, return_logits, total_generation_steps, all_input_ids,
           decoding_step, num_input_tokens, token_buffer, positions, cache, done,
           total_sampling_steps, logits_buffer, forbidden_token_ids, rng,
           masked_token_buffer, out_tokens, out_logits, gen, steps, cache_length,
           forbidden_tokens, attention_mask, calls, policy_keys, key_reused, call2 >>

(* ---------------- random keys ---------------- *)
\* jax.random.PRNGKey(seed): the root key; a key is the path of splits from it.
PRNGKey == << >>

\* jax.random.split(key): two fresh keys, in the order the source unpacks them.
Split(key) == << Append(key, 0), Append(key, 1) >>

(* ---------------- tokenizer ---------------- *)
\* Sampler.tokenize: BOS followed by the encoding of the string.
tokenize(enc) == << BOS >> \o enc

(* ---------------- batch initialisation ---------------- *)
\* transformer_lib.build_positions_from_mask: the count of non-pad tokens
\* before each slot (cumulative sum of the mask, minus one where it is >= 1).
build_positions_from_mask(mask, L) ==
  [c \in 0 .. (L - 1) |->
     LET cs == Cardinality({k \in 0 .. c : mask[k]})
     IN  IF cs >= 1 THEN cs - 1 ELSE 0]

\* token_buffer of init_sample_state: PAD everywhere, the prompt at offset 0.
InitTokenBuffer(ids, tss) ==
  [i \in 1 .. Len(ids) |->
     [c \in 0 .. tss |-> IF c < Len(ids[i]) THEN ids[i][c + 1] ELSE PAD]]

\* input_mask of init_sample_state: ones, and input_ids != PAD over the prompt.
InitInputMask(ids, tss) ==
  [i \in 1 .. Len(ids) |->
     [c \in 0 .. tss |-> IF c < Len(ids[i]) THEN ids[i][c + 1] # PAD ELSE TRUE]]

\* logits_buffer of init_sample_state: zeros when include_logits, else None.
InitLogitsBuffer(bsz, tss, include_logits) ==
  IF include_logits
    THEN [i \in 1 .. bsz |-> [c \in 0 .. tss |-> [v \in Vocab |-> 0]]]
    ELSE NoBuffer

\* Sampler.init_cache: an empty cache per row.
init_cache(bsz) == [i \in 1 .. bsz |-> << >>]

(* ---------------- attention mask ---------------- *)
\* Variant: the window always starts at slot 0 of the buffer.
compute_attention_masks_NoSlide(time_step, seq_len, input_mask, L) ==
  LET max_seq_len == Min(L, seq_len)
      start == 0
  IN  [b \in DOMAIN input_mask |->
        [j \in 0 .. (seq_len - 1) |->
           (j <= time_step)
           /\ (IF j < max_seq_len THEN input_mask[b][start + j] ELSE TRUE)]]

\* _compute_attention_masks(time_step, seq_len, input_mask), for a buffer of L columns.
compute_attention_masks(time_step, seq_len, input_mask, L) ==
  LET max_seq_len == Min(L, seq_len)
      \* jax.lax.dynamic_slice clamps the start so that the slice fits.
      start == Min(Max(time_step - seq_len + 1, 0), L - max_seq_len)
  IN  [b \in DOMAIN input_mask |->
        [j \in 0 .. (seq_len - 1) |->
           (j <= time_step)
           /\ (IF j < max_seq_len THEN input_mask[b][start + j] ELSE TRUE)]]

(* ---------------- transformer (external collaborator) ---------------- *)
\* Logits of transformer.apply for one row: a pure function of the token fed,
\* its position, the cache and the attention mask.
RawLogits(tok, pos, row_cache, att) ==
  [v \in Vocab |->
     (tok + pos + Len(row_cache) + Cardinality({j \in DOMAIN att : att[j]}) + v) % 2]

\* The cache transformer.apply returns: the old one plus what was fed.
NextCache(row_cache, tok, pos) == Append(row_cache, << tok, pos >>)

(* ---------------- one sampling step ---------------- *)
\* Variant: the forbidden ids are not masked.
MaskForbidden_Skipped(logits, forbidden) == logits

\* Lines 146-147: forbidden ids get logit -inf when forbidden_token_ids is truthy.
MaskForbidden(logits, forbidden) ==
  IF forbidden # None /\ forbidden # << >>
    THEN [v \in Vocab |->
            IF \E k \in 1 .. Len(forbidden) : forbidden[k] = v
              THEN NegInf ELSE logits[v]]
    ELSE logits

\* Variant: the replay test is off by one and gives up the last prompt token.
ReplayOrCandidate_EndsEarly(d, n, buffered, candidate) ==
  IF d < n - 2 THEN buffered ELSE candidate

\* Variant: the replay test is off by one and replays one column too many.
ReplayOrCandidate_RunsLate(d, n, buffered, candidate) ==
  IF d < n THEN buffered ELSE candidate

\* Lines 154-158: the prompt token while replaying the prompt, else the candidate.
ReplayOrCandidate(d, n, buffered, candidate) ==
  IF d < n - 1 THEN buffered ELSE candidate

\* Variant: the token is scattered into the column just read.
WriteColumn_Current(d) == d

\* Lines 160-162: the column the step scatters the next token into.
WriteColumn(d) == d + 1

\* Variant: the logits are stored at the column just read.
LogitsColumn_Current(d) == d

\* Lines 166-168: the column the step stores the logits in.
LogitsColumn(d) == d + 1

\* Variant: the flag is overwritten instead of or-ed.
UpdateDone_Overwrites(was_done, token) == token = EOS

\* Lines 174-176: done | (token written == EOS).
UpdateDone(was_done, token) == was_done \/ (token = EOS)

\* Lines 125-135: the buffer length, and (out-of-range gather indices being
\* clamped) the token and the position fed to the transformer.
BufferLength == total_sampling_steps + 1

ClampCol(c) == Min(c, BufferLength - 1)

LastToken == [i \in DOMAIN token_buffer |-> token_buffer[i][ClampCol(decoding_step)]]

StepPositions == [i \in DOMAIN token_buffer |-> positions[i][ClampCol(decoding_step)]]

StepAttentionMask ==
  compute_attention_masks(
    decoding_step, cache_length,
    [i \in DOMAIN token_buffer |->
       [c \in 0 .. (BufferLength - 1) |-> token_buffer[i][c] # PAD]],
    BufferLength)

\* Lines 137-147: the logits handed to the sampling policy at this step.
StepLogits ==
  [i \in DOMAIN token_buffer |->
     MaskForbidden(
       RawLogits(LastToken[i], StepPositions[i], cache[i], StepAttentionMask[i]),
       forbidden_token_ids)]

\* Variant: the done flags are not looked at.
cond_fn_IgnoresDone == decoding_step < total_sampling_steps

\* Variant: the loop ends as soon as one sequence is done.
cond_fn_AnyDoneStops ==
  /\ decoding_step < total_sampling_steps
  /\ \A i \in DOMAIN done : ~done[i]

\* Variant: the test of the step budget is missing.
cond_fn_NoBudget == \E i \in DOMAIN done : ~done[i]

\* cond_fn of _sample_fn.
cond_fn ==
  /\ decoding_step < total_sampling_steps
  /\ \E i \in DOMAIN done : ~done[i]

(* ---------------- output extraction ---------------- *)
\* Variant: the mask is strict, so the EOS slot is padded too.
MaskRowAfterEos_DropsEos(row, L) ==
  LET eos_exists == \E c \in 0 .. (L - 1) : row[c] = EOS
      eos_index ==
        IF eos_exists
          THEN CHOOSE c \in 0 .. (L - 1) :
                 row[c] = EOS /\ \A k \in 0 .. (c - 1) : row[k] # EOS
          ELSE L
      mask == [c \in 0 .. (L - 1) |-> IF c < eos_index THEN 1 ELSE 0]
  IN  [c \in 0 .. (L - 1) |-> row[c] * mask[c] + PAD * (1 - mask[c])]

\* mask_tokens_after_eos_ids on one row of L columns: argmax of the EOS test
\* is its first occurrence, and the mask is arange <= eos_index.
MaskRowAfterEos(row, L) ==
  LET eos_exists == \E c \in 0 .. (L - 1) : row[c] = EOS
      eos_index ==
        IF eos_exists
          THEN CHOOSE c \in 0 .. (L - 1) :
                 row[c] = EOS /\ \A k \in 0 .. (c - 1) : row[k] # EOS
          ELSE L
      mask == [c \in 0 .. (L - 1) |-> IF c <= eos_index THEN 1 ELSE 0]
  IN  [c \in 0 .. (L - 1) |-> row[c] * mask[c] + PAD * (1 - mask[c])]

\* Variant: the buffer is returned as it is.
mask_tokens_after_eos_ids_Skipped(buffer, L) == buffer

mask_tokens_after_eos_ids(buffer, L) ==
  [i \in DOMAIN buffer |-> MaskRowAfterEos(buffer[i], L)]

\* Variant: the slice runs to the end of the buffer.
OutputSlice_ToEnd(row, L, start_idx, tss) == PySlice(row, L, start_idx, L)

\* Lines 363 and 367: row[start_idx:total_sampling_steps].
OutputSlice(row, L, start_idx, tss) == PySlice(row, L, start_idx, tss)

(* ---------------- inputs of a call ---------------- *)
\* Encodings of strings: id sequences of at most n ids.
Encodings(n) == UNION { [1 .. k -> Vocab] : k \in 0 .. n }

\* The strings a caller may forbid, as their encodings: one id, two ids, no id.
ForbiddenStrings == { << VocabSize - 1 >>, << VocabSize - 1, EOS >>, << >> }

\* forbidden_tokens = None.
NoForbiddenTokens == [given |-> FALSE, strs |-> << >>]

\* Argument forbidden_tokens: None, a list of one string, or the one-id string
\* followed by the two-id string.
ForbiddenArgs ==
  { NoForbiddenTokens }
  \cup { [given |-> TRUE, strs |-> << s >>] : s \in ForbiddenStrings }
  \cup { [given |-> TRUE, strs |-> << << VocabSize - 1 >>, << VocabSize - 1, EOS >> >>] }

\* Line 334: forbidden_token_ids.extend(token_id), string after string.
RECURSIVE ExtendAll(_)
ExtendAll(strs) ==
  IF strs = << >> THEN << >> ELSE Head(strs) \o ExtendAll(Tail(strs))

\* Lines 325-335: the forbidden ids, when every string encodes to one id.
ForbiddenIds(arg) ==
  IF arg.given THEN ExtendAll(arg.strs) ELSE None

\* Variant: only an encoding of several ids is rejected.
ForbiddenMalformed_LongOnly(arg) ==
  arg.given /\ \E k \in 1 .. Len(arg.strs) : Len(arg.strs[k]) > 1

\* Line 330: some forbidden string does not encode to exactly one id.
ForbiddenMalformed(arg) ==
  arg.given /\ \E k \in 1 .. Len(arg.strs) : Len(arg.strs[k]) # 1

\* No second call.
NoCall ==
  [pc |-> "idle", rng |-> PRNGKey, decoding_step |-> 0, num_input_tokens |-> << >>,
   token_buffer |-> << >>, positions |-> << >>, cache |-> << >>, done |-> << >>,
   total_sampling_steps |-> 0, out_tokens |-> << >>]

\* Variant: the stored rng is left as it was.
NextStoredRng_Stale(state_rng) == self_rng

\* Line 373: self._rng = sampling_state.rng.
NextStoredRng(state_rng) == state_rng

MaxLen(ids) ==
  CHOOSE m \in { Len(ids[i]) : i \in 1 .. Len(ids) } :
    \A i \in 1 .. Len(ids) : Len(ids[i]) <= m

(* ---------------- state after construction ---------------- *)
Init ==
  /\ pc = "idle"
  /\ self_rng = PRNGKey
  /\ echo = FALSE
  /\ return_logits = FALSE
  /\ total_generation_steps = 0
  /\ all_input_ids = << >>
  /\ decoding_step = 0
  /\ num_input_tokens = << >>
  /\ token_buffer = << >>
  /\ positions = << >>
  /\ cache = << >>
  /\ done = << >>
  /\ total_sampling_steps = 0
  /\ logits_buffer = NoBuffer
  /\ forbidden_token_ids = None
  /\ rng = PRNGKey
  /\ masked_token_buffer = << >>
  /\ out_tokens = << >>
  /\ out_logits = << >>
  /\ gen = << >>
  /\ steps = 0
  /\ cache_length = CacheLength
  /\ forbidden_tokens = NoForbiddenTokens
  /\ attention_mask = << >>
  /\ calls = 0
  /\ policy_keys = {}
  /\ key_reused = FALSE
  /\ call2 = NoCall

(* ---------------- __call__, lines 325-344 ---------------- *)
\* A forbidden string that does not encode to one id: ValueError at line 331.
CallRaises ==
  /\ pc = "idle"
  /\ \E arg \in ForbiddenArgs :
       /\ ForbiddenMalformed(arg)
       /\ forbidden_tokens' = arg
       /\ pc' = "raised"
  /\ calls' = calls + 1
  /\ UNCHANGED << self_rng, echo, return_logits, total_generation_steps, all_input_ids,
                  decoding_step, num_input_tokens, token_buffer, positions, cache, done,
                  total_sampling_steps, logits_buffer, forbidden_token_ids, rng,
                  masked_token_buffer, out_tokens, out_logits, gen, steps, cache_length,
                  attention_mask, policy_keys, key_reused, call2 >>

\* Forbidden ids, tokenized prompts and init_sample_state, for batches whose
\* token buffer has at most `cells` cells, a return_logits out of `flags` and
\* a forbidden_tokens out of `args`.
CallFrom(cells, flags, args) ==
  /\ pc = "idle"
  /\ \E bsz \in 1 .. MaxBatch, tgs \in 0 .. MaxGen, incl \in flags, arg \in args :
     \E input_strings \in [1 .. bsz -> Encodings(MaxEnc)] :
       LET ids == [i \in 1 .. bsz |-> tokenize(input_strings[i])]
           max_input_length == MaxLen(ids)
           tss == max_input_length + tgs
           buffer_size == tss + 1
           input_mask == InitInputMask(ids, tss)
       IN  /\ ~ForbiddenMalformed(arg)
           /\ bsz * buffer_size <= cells
           /\ all_input_ids' = ids
           /\ total_generation_steps' = tgs
           /\ return_logits' = incl
           /\ decoding_step' = 0
           /\ num_input_tokens' = [i \in 1 .. bsz |-> Len(ids[i])]
           /\ token_buffer' = InitTokenBuffer(ids, tss)
           /\ positions' =
                [i \in 1 .. bsz |-> build_positions_from_mask(input_mask[i], buffer_size)]
           /\ logits_buffer' = InitLogitsBuffer(bsz, tss, incl)
           /\ cache' = init_cache(bsz)
           /\ done' = [i \in 1 .. bsz |-> FALSE]
           /\ total_sampling_steps' = tss
           /\ forbidden_token_ids' = ForbiddenIds(arg)
           /\ forbidden_tokens' = arg
           /\ rng' = self_rng
           /\ gen' = [i \in 1 .. bsz |-> << >>]
           /\ steps' = 0
  /\ pc' = "loop"
  /\ calls' = calls + 1
  /\ UNCHANGED << self_rng, echo, masked_token_buffer, out_tokens, out_logits,
                  cache_length, attention_mask, policy_keys, key_reused, call2 >>

CallWithin(cells) == CallFrom(cells, BOOLEAN, ForbiddenArgs)

Call == CallWithin(MaxCells)

(* ---------------- _sample_step, one iteration of the while_loop ---------------- *)
SampleStep ==
  /\ pc = "loop"
  /\ cond_fn
  /\ \E candidate \in [DOMAIN token_buffer -> Vocab] :
       LET rows == DOMAIN token_buffer
           L == BufferLength
           d == decoding_step
           logits == StepLogits
           keys == Split(rng)
           next_rng == keys[1]
           curr_rng == keys[2]
           next_token ==
             [i \in rows |->
                ReplayOrCandidate(d, num_input_tokens[i], token_buffer[i][ClampCol(d + 1)],
                                  candidate[i])]
           \* an out-of-range scatter is dropped
           new_buffer ==
             [i \in rows |->
                [c \in 0 .. (L - 1) |->
                   IF c = WriteColumn(d) THEN next_token[i] ELSE token_buffer[i][c]]]
       IN  /\ token_buffer' = new_buffer
           /\ logits_buffer' =
                IF logits_buffer # NoBuffer
                  THEN [i \in rows |->
                          [c \in 0 .. (L - 1) |->
                             IF c = LogitsColumn(d) THEN logits[i] ELSE logits_buffer[i][c]]]
                  ELSE logits_buffer
           /\ done' = [i \in rows |-> UpdateDone(done[i], new_buffer[i][ClampCol(d + 1)])]
           /\ cache' = [i \in rows |-> NextCache(cache[i], LastToken[i], StepPositions[i])]
           /\ rng' = next_rng
           /\ policy_keys' = policy_keys \cup {curr_rng}
           /\ key_reused' = (key_reused \/ curr_rng \in policy_keys)
           /\ gen' = [i \in rows |->
                        IF d >= num_input_tokens[i] - 1
                          THEN Append(gen[i], candidate[i]) ELSE gen[i]]
  /\ decoding_step' = decoding_step + 1
  /\ steps' = steps + 1
  /\ UNCHANGED << pc, self_rng, echo, return_logits, total_generation_steps, all_input_ids,
                  num_input_tokens, positions, total_sampling_steps, forbidden_token_ids,
                  masked_token_buffer, out_tokens, out_logits, cache_length,
                  forbidden_tokens, attention_mask, calls, call2 >>

(* ---------------- __call__, lines 350-380 ---------------- *)
\* The loop has ended: mask after EOS, slice the rows, store the final rng.
\* echo is read here for the first time (line 362).
Finish ==
  /\ pc = "loop"
  /\ ~cond_fn
  /\ \E e \in BOOLEAN :
       LET rows == DOMAIN token_buffer
           L == total_sampling_steps + 1
           masked == mask_tokens_after_eos_ids(token_buffer, L)
           start_idx(i) == IF e THEN 0 ELSE num_input_tokens[i]
       IN  /\ echo' = e
           /\ masked_token_buffer' = masked
           /\ out_tokens' =
                [i \in rows |-> OutputSlice(masked[i], L, start_idx(i), total_sampling_steps)]
           /\ out_logits' =
                IF return_logits
                  THEN [i \in rows |->
                          OutputSlice(logits_buffer[i], L, start_idx(i), total_sampling_steps)]
                  ELSE << >>
  /\ self_rng' = NextStoredRng(rng)
  /\ pc' = "returned"
  /\ UNCHANGED << return_logits, total_generation_steps, all_input_ids, decoding_step,
                  num_input_tokens, token_buffer, positions, cache, done,
                  total_sampling_steps, logits_buffer, forbidden_token_ids, rng, gen, steps,
                  cache_length, forbidden_tokens, attention_mask, calls, policy_keys,
                  key_reused, call2 >>

Next == CallRaises \/ Call \/ SampleStep \/ Finish

Spec == Init /\ [][Next]_vars

\* The while_loop runs its body whenever cond_fn holds, and __call__ goes on
\* to the extraction when the loop has ended.
CallLive == CallWithin(MaxCellsLive)

NextLive == CallRaises \/ CallLive \/ SampleStep \/ Finish

FairSpec ==
  Init /\ [][NextLive]_vars /\ WF_vars(SampleStep) /\ WF_vars(Finish)

(* ---------------- calls one after the other on one Sampler ---------------- *)
\* Lines 137-144: transformer.apply raises; the exception leaves the loop and
\* __call__, and nothing is assigned.
StepFails ==
  /\ pc = "loop"
  /\ cond_fn
  /\ pc' = "raised"
  /\ UNCHANGED << self_rng, echo, return_logits, total_generation_steps, all_input_ids,
                  decoding_step, num_input_tokens, token_buffer, positions, cache, done,
                  total_sampling_steps, logits_buffer, forbidden_token_ids, rng,
                  masked_token_buffer, out_tokens, out_logits, gen, steps, cache_length,
                  forbidden_tokens, attention_mask, calls, policy_keys, key_reused, call2 >>

\* __call__ has returned or raised: its locals are gone, the Sampler keeps
\* its fields, and the caller may call again.
NextCall ==
  /\ pc \in {"returned", "raised"}
  /\ calls < MaxCalls
  /\ pc' = "idle"
  /\ echo' = FALSE
  /\ return_logits' = FALSE
  /\ total_generation_steps' = 0
  /\ all_input_ids' = << >>
  /\ decoding_step' = 0
  /\ num_input_tokens' = << >>
  /\ token_buffer' = << >>
  /\ positions' = << >>
  /\ cache' = << >>
  /\ done' = << >>
  /\ total_sampling_steps' = 0
  /\ logits_buffer' = NoBuffer
  /\ forbidden_token_ids' = None
  /\ rng' = PRNGKey
  /\ masked_token_buffer' = << >>
  /\ out_tokens' = << >>
  /\ out_logits' = << >>
  /\ gen' = << >>
  /\ steps' = 0
  /\ forbidden_tokens' = NoForbiddenTokens
  /\ UNCHANGED << self_rng, cache_length, attention_mask, calls, policy_keys,
                  key_reused, call2 >>

CallSmall == CallFrom(MaxCellsCalls, {FALSE}, ForbiddenArgs)

NextCalls == CallRaises \/ CallSmall \/ SampleStep \/ StepFails \/ Finish \/ NextCall

SpecCalls == Init /\ [][NextCalls]_vars

(* ---------------- two calls at once on one Sampler ---------------- *)
\* The second call: __call__ on the empty prompt with the default echo,
\* return_logits and forbidden_tokens, up to init_sample_state.
Call2 ==
  /\ call2.pc = "idle"
  /\ \E tgs \in 0 .. MaxGen :
       LET ids == << tokenize(<< >>) >>
           tss == MaxLen(ids) + tgs
           buffer_size == tss + 1
           input_mask == InitInputMask(ids, tss)
       IN  /\ buffer_size <= MaxCellsConc
           /\ call2' =
                [pc |-> "loop",
                 rng |-> self_rng,
                 decoding_step |-> 0,
                 num_input_tokens |-> [i \in 1 .. 1 |-> Len(ids[i])],
                 token_buffer |-> InitTokenBuffer(ids, tss),
                 positions |->
                   [i \in 1 .. 1 |-> build_positions_from_mask(input_mask[i], buffer_size)],
                 cache |-> init_cache(1),
                 done |-> [i \in 1 .. 1 |-> FALSE],
                 total_sampling_steps |-> tss,
                 out_tokens |-> << >>]
  /\ calls' = calls + 1
  /\ UNCHANGED << pc, self_rng, echo, return_logits, total_generation_steps, all_input_ids,
                  decoding_step, num_input_tokens, token_buffer, positions, cache, done,
                  total_sampling_steps, logits_buffer, forbidden_token_ids, rng,
                  masked_token_buffer, out_tokens, out_logits, gen, steps, cache_length,
                  forbidden_tokens, attention_mask, policy_keys, key_reused >>

\* cond_fn on the second call's state.
cond_fn2 ==
  /\ call2.decoding_step < call2.total_sampling_steps
  /\ \E i \in DOMAIN call2.done : ~call2.done[i]

\* _sample_step on the second call's state.
SampleStep2 ==
  /\ call2.pc = "loop"
  /\ cond_fn2
  /\ \E candidate \in [DOMAIN call2.token_buffer -> Vocab] :
       LET rows == DOMAIN call2.token_buffer
           L == call2.total_sampling_steps + 1
           d == call2.decoding_step
           col(c) == Min(c, L - 1)
           input_mask ==
             [i \in rows |-> [c \in 0 .. (L - 1) |-> call2.token_buffer[i][c] # PAD]]
           att == compute_attention_masks(d, cache_length, input_mask, L)
           last_token == [i \in rows |-> call2.token_buffer[i][col(d)]]
           step_positions == [i \in rows |-> call2.positions[i][col(d)]]
           keys == Split(call2.rng)
           next_rng == keys[1]
           curr_rng == keys[2]
           next_token ==
             [i \in rows |->
                ReplayOrCandidate(d, call2.num_input_tokens[i],
                                  call2.token_buffer[i][col(d + 1)], candidate[i])]
           new_buffer ==
             [i \in rows |->
                [c \in 0 .. (L - 1) |->
                   IF c = WriteColumn(d) THEN next_token[i] ELSE call2.token_buffer[i][c]]]
       IN  /\ call2' =
                [call2 EXCEPT
                   !.token_buffer = new_buffer,
                   !.done = [i \in rows |->
                               UpdateDone(call2.done[i], new_buffer[i][col(d + 1)])],
                   !.cache = [i \in rows |->
                                NextCache(call2.cache[i], last_token[i], step_positions[i])],
                   !.rng = next_rng,
                   !.decoding_step = d + 1]
           /\ policy_keys' = policy_keys \cup {curr_rng}
           /\ key_reused' = (key_reused \/ curr_rng \in policy_keys)
  /\ UNCHANGED << pc, self_rng, echo, return_logits, total_generation_steps, all_input_ids,
                  decoding_step, num_input_tokens, token_buffer, positions, cache, done,
                  total_sampling_steps, logits_buffer, forbidden_token_ids, rng,
                  masked_token_buffer, out_tokens, out_logits, gen, steps, cache_length,
                  forbidden_tokens, attention_mask, calls >>

\* The second call's loop has ended: mask, slice, store the final rng.
Finish2 ==
  /\ call2.pc = "loop"
  /\ ~cond_fn2
  /\ LET rows == DOMAIN call2.token_buffer
         L == call2.total_sampling_steps + 1
         masked == mask_tokens_after_eos_ids(call2.token_buffer, L)
     IN  call2' =
           [call2 EXCEPT
              !.pc = "returned",
              !.out_tokens =
                [i \in rows |->
                   OutputSlice(masked[i], L, call2.num_input_tokens[i],
                               call2.total_sampling_steps)]]
  /\ self_rng' = NextStoredRng(call2.rng)
  /\ UNCHANGED << pc, echo, return_logits, total_generation_steps, all_input_ids,
                  decoding_step, num_input_tokens, token_buffer, positions, cache, done,
                  total_sampling_steps, logits_buffer, forbidden_token_ids, rng,
                  masked_token_buffer, out_tokens, out_logits, gen, steps, cache_length,
                  forbidden_tokens, attention_mask, calls, policy_keys, key_reused >>

\* The first call, with the default return_logits and forbidden_tokens.
CallConc == CallFrom(MaxCellsConc, {FALSE}, {NoForbiddenTokens})

NextConc == CallConc \/ SampleStep \/ Finish \/ Call2 \/ SampleStep2 \/ Finish2

SpecConc == Init /\ [][NextConc]_vars

(* ---------------- mask_tokens_after_eos_ids on its own ---------------- *)
\* Every buffer of at most MaxBatch rows and MaxCells cells, and the function applied to it.
InitMask ==
  /\ pc = "mask"
  /\ \E bsz \in 1 .. MaxBatch, L \in 1 .. MaxCells :
       /\ bsz * L <= MaxCells
       /\ token_buffer \in [1 .. bsz -> [0 .. (L - 1) -> Vocab]]
       /\ total_sampling_steps = L - 1
  /\ self_rng = PRNGKey
  /\ echo = FALSE
  /\ return_logits = FALSE
  /\ total_generation_steps = 0
  /\ all_input_ids = << >>
  /\ decoding_step = 0
  /\ num_input_tokens = << >>
  /\ positions = << >>
  /\ cache = << >>
  /\ done = << >>
  /\ logits_buffer = NoBuffer
  /\ forbidden_token_ids = None
  /\ rng = PRNGKey
  /\ masked_token_buffer = << >>
  /\ out_tokens = << >>
  /\ out_logits = << >>
  /\ gen = << >>
  /\ steps = 0
  /\ cache_length = CacheLength
  /\ forbidden_tokens = NoForbiddenTokens
  /\ attention_mask = << >>
  /\ calls = 0
  /\ policy_keys = {}
  /\ key_reused = FALSE
  /\ call2 = NoCall

ApplyMask ==
  /\ pc = "mask"
  /\ masked_token_buffer' = mask_tokens_after_eos_ids(token_buffer, BufferLength)
  /\ pc' = "masked"
  /\ UNCHANGED << self_rng, echo, return_logits, total_generation_steps, all_input_ids,
                  decoding_step, num_input_tokens, token_buffer, positions, cache, done,
                  total_sampling_steps, logits_buffer, forbidden_token_ids, rng,
                  out_tokens, out_logits, gen, steps, cache_length, forbidden_tokens,
                  attention_mask, calls, policy_keys, key_reused, call2 >>

SpecMask == InitMask /\ [][ApplyMask]_vars

(* ---------------- _compute_attention_masks on its own ---------------- *)
\* Every buffer of pad and non-pad tokens of at most MaxBatch rows and MaxCells
\* cells, every step of a call on it and every cache window up to MaxWindow.
InitAttn ==
  /\ pc = "attend"
  /\ \E bsz \in 1 .. MaxBatch, L \in 2 .. MaxCells :
       /\ bsz * L <= MaxCells
       /\ token_buffer \in [1 .. bsz -> [0 .. (L - 1) -> {PAD, BOS}]]
       /\ total_sampling_steps = L - 1
       /\ decoding_step \in 0 .. (L - 2)
  /\ cache_length \in 1 .. MaxWindow
  /\ self_rng = PRNGKey
  /\ echo = FALSE
  /\ return_logits = FALSE
  /\ total_generation_steps = 0
  /\ all_input_ids = << >>
  /\ num_input_tokens = << >>
  /\ positions = << >>
  /\ cache = << >>
  /\ done = << >>
  /\ logits_buffer = NoBuffer
  /\ forbidden_token_ids = None
  /\ rng = PRNGKey
  /\ masked_token_buffer = << >>
  /\ out_tokens = << >>
  /\ out_logits = << >>
  /\ gen = << >>
  /\ steps = 0
  /\ forbidden_tokens = NoForbiddenTokens
  /\ attention_mask = << >>
  /\ calls = 0
  /\ policy_keys = {}
  /\ key_reused = FALSE
  /\ call2 = NoCall

\* Lines 128-131: the mask of the step, from token_buffer != PAD.
ApplyAttention ==
  /\ pc = "attend"
  /\ attention_mask' = StepAttentionMask
  /\ pc' = "attended"
  /\ UNCHANGED << self_rng, echo, return_logits, total_generation_steps, all_input_ids,
                  decoding_step, num_input_tokens, token_buffer, positions, cache, done,
                  total_sampling_steps, logits_buffer, forbidden_token_ids, rng,
                  masked_token_buffer, out_tokens, out_logits, gen, steps, cache_length,
                  forbidden_tokens, calls, policy_keys, key_reused, call2 >>

SpecAttn == InitAttn /\ [][ApplyAttention]_vars

(* ---------------- properties ---------------- *)
Rows == DOMAIN token_buffer

Started == pc \in {"loop", "returned"}

\* C1: from the state init_sample_state builds, the loop ends, and it never
\* executes more than total_sampling_steps steps, whatever the policy chooses.
C1_Termination ==
  /\ [](Started => steps <= total_sampling_steps)
  /\ ((pc = "loop") ~> (pc = "returned"))

\* A call whose loop used up the whole step budget.
C1_Witness ==
  pc = "returned" /\ steps = total_sampling_steps /\ steps >= 3

\* C2: a done flag that is true before a step is true after it.
C2_DoneMonotonic ==
  [][\A i \in DOMAIN done : done[i] => (i \in DOMAIN done' /\ done'[i])]_vars

\* A row that was done and has been stepped again since.
C2_Witness ==
  /\ pc = "loop"
  /\ \E i \in Rows : done[i] /\ \E c \in 1 .. (decoding_step - 1) : token_buffer[i][c] = EOS

\* C3: the first num_input_tokens[i] columns of row i hold the tokenized prompt
\* of row i in every state of the call.
C3_PromptFidelity ==
  Started =>
    \A i \in Rows :
      \A c \in 0 .. (num_input_tokens[i] - 1) : token_buffer[i][c] = all_input_ids[i][c + 1]

\* A finished call on prompts of different lengths whose loop went past both prompts.
C3_Witness ==
  /\ pc = "returned"
  /\ \E i, j \in Rows : num_input_tokens[i] < num_input_tokens[j]
  /\ \A i \in Rows : decoding_step > num_input_tokens[i]


\* Row i holds EOS somewhere in its buffer / the column of the first one.
HasEos(i) == \E c \in 0 .. total_sampling_steps : token_buffer[i][c] = EOS

FirstEos(i) ==
  CHOOSE c \in 0 .. total_sampling_steps :
    token_buffer[i][c] = EOS /\ \A k \in 0 .. (c - 1) : token_buffer[i][k] # EOS

IsForbidden(t) ==
  /\ forbidden_token_ids # None
  /\ \E k \in 1 .. Len(forbidden_token_ids) : forbidden_token_ids[k] = t

StepTaken == steps' = steps + 1

\* C4 as stated: once done[i] is true, no later step writes the policy's
\* candidate into row i (only prompt-replay tokens).
C4_NoCandidateAfterDone ==
  [][\A i \in DOMAIN done : (done[i] /\ StepTaken) => gen'[i] = gen[i]]_vars

\* C4 amended: a step taken while row i is done (another row is not) may write
\* the policy's candidate into row i, but only into column decoding_step + 1,
\* which lies after the EOS that made the row done; no column up to
\* decoding_step, that EOS included, is changed.
C4_DoneRowKeepsPrefix ==
  [][\A i \in DOMAIN done :
       (done[i] /\ StepTaken) =>
         /\ \E e \in 1 .. decoding_step : token_buffer[i][e] = EOS
         /\ \A c \in 0 .. decoding_step : token_buffer'[i][c] = token_buffer[i][c]]_vars

\* A done row into which a later step has written the policy's candidate.
C4_Witness ==
  /\ Started
  /\ \E i \in Rows :
       /\ done[i]
       /\ decoding_step >= num_input_tokens[i]
       /\ \E e \in 1 .. (decoding_step - 1) : token_buffer[i][e] = EOS
       /\ Len(gen[i]) >= 1
       /\ token_buffer[i][decoding_step] = gen[i][Len(gen[i])]

\* C5: with forbidden ids set, a token a step writes from the policy's choice
\* is not forbidden, provided the policy chose a token whose logit is not -inf.
C5_ForbiddenExcluded ==
  [][(StepTaken /\ forbidden_token_ids # None /\ forbidden_token_ids # << >>) =>
       \A i \in DOMAIN done :
         (/\ decoding_step >= num_input_tokens[i] - 1
          /\ StepLogits[i][gen'[i][Len(gen'[i])]] # NegInf)
         => ~IsForbidden(token_buffer'[i][decoding_step + 1])]_vars

\* Forbidden ids are set and two rows hold tokens written from the policy's choice.
C5_Witness ==
  /\ Started
  /\ forbidden_token_ids # None /\ forbidden_token_ids # << >>
  /\ Cardinality(Rows) = 2
  /\ \A i \in Rows :
       /\ Len(gen[i]) >= 2
       /\ \A c \in num_input_tokens[i] .. decoding_step : ~IsForbidden(token_buffer[i][c])

\* The buffer column an output position comes from.
OutColumn(i, k) == (IF echo THEN 0 ELSE num_input_tokens[i]) + k - 1

\* C6: in the returned tokens, every position that lies strictly after the
\* first EOS of the row's token_buffer is PAD, with echo or without.
C6_PostEosMasked ==
  pc = "returned" =>
    \A i \in Rows :
      HasEos(i) =>
        \A k \in 1 .. Len(out_tokens[i]) :
          OutColumn(i, k) > FirstEos(i) => out_tokens[i][k] = PAD

\* A returned row in which the loop wrote a non-PAD token after the first EOS,
\* at a column the output covers.
C6_Witness ==
  /\ pc = "returned"
  /\ \E i \in Rows :
       /\ HasEos(i)
       /\ \E k \in 1 .. Len(out_tokens[i]) :
            /\ OutColumn(i, k) > FirstEos(i)
            /\ token_buffer[i][OutColumn(i, k)] # PAD

\* C7 as stated: every position at or after the first EOS is PAD, the
\* positions before it are unchanged, and a row without EOS is unchanged.
C7_MaskedFromEos ==
  pc = "masked" =>
    \A i \in Rows :
      \A c \in 0 .. total_sampling_steps :
        masked_token_buffer[i][c] =
          IF HasEos(i) /\ c >= FirstEos(i) THEN PAD ELSE token_buffer[i][c]

\* C7 amended: every position strictly after the first EOS is PAD, the
\* positions up to and including the EOS are unchanged, and a row without
\* EOS is unchanged.
C7_MaskedAfterEos ==
  pc = "masked" =>
    \A i \in Rows :
      \A c \in 0 .. total_sampling_steps :
        masked_token_buffer[i][c] =
          IF HasEos(i) /\ c > FirstEos(i) THEN PAD ELSE token_buffer[i][c]

\* A masked buffer with a row without EOS and a row with non-PAD tokens after its EOS.
C7_Witness ==
  /\ pc = "masked"
  /\ \E i \in Rows : ~HasEos(i)
  /\ \E i \in Rows :
       /\ HasEos(i)
       /\ FirstEos(i) >= 1
       /\ \E c \in (FirstEos(i) + 1) .. total_sampling_steps : token_buffer[i][c] # PAD
       /\ masked_token_buffer[i][FirstEos(i)] = EOS

\* C8: a returned row has total_sampling_steps - num_input_tokens[i] tokens
\* without echo and total_sampling_steps tokens with echo, where
\* total_sampling_steps = longest prompt + total_generation_steps.
C8_EchoLengths ==
  pc = "returned" =>
    /\ total_sampling_steps = MaxLen(all_input_ids) + total_generation_steps
    /\ \A i \in Rows :
         Len(out_tokens[i]) =
           IF echo THEN total_sampling_steps
                   ELSE total_sampling_steps - num_input_tokens[i]

\* A call without echo that stopped early on EOS, on prompts of different lengths.
C8_Witness ==
  /\ pc = "returned"
  /\ ~echo
  /\ decoding_step < total_sampling_steps
  /\ \E i, j \in Rows : num_input_tokens[i] < num_input_tokens[j]

\* No EOS anywhere in the token buffer.
NoEos == \A i \in Rows : ~HasEos(i)

\* C9: column d + 1 gets the prompt token when d < num_input_tokens[i] - 1 and
\* the policy's candidate of step d otherwise; without any EOS no row is ever
\* done, the loop runs total_sampling_steps steps, and the echo=false output
\* of row i is the candidates of steps num_input_tokens[i] - 1 ..
\* total_sampling_steps - 2 in order (total_generation_steps of them for the
\* longest prompt).
C9_ReplayThenCandidates ==
  Started =>
    /\ \A i \in Rows :
         \A c \in 1 .. decoding_step :
           token_buffer[i][c] =
             IF c - 1 < num_input_tokens[i] - 1
               THEN all_input_ids[i][c + 1]
               ELSE gen[i][c - num_input_tokens[i] + 1]
    /\ NoEos => \A i \in Rows : ~done[i]
    /\ (pc = "returned" /\ NoEos) =>
         /\ steps = total_sampling_steps
         /\ \A i \in Rows :
              /\ Len(gen[i]) = total_sampling_steps - num_input_tokens[i] + 1
              /\ ~echo =>
                   out_tokens[i] =
                     SubSeq(gen[i], 1, total_sampling_steps - num_input_tokens[i])
              /\ (~echo /\ num_input_tokens[i] = MaxLen(all_input_ids)) =>
                   Len(out_tokens[i]) = total_generation_steps

\* One generation step without EOS on prompts of lengths 1 and 2: the longer
\* prompt returns the one candidate, the shorter one its two candidates.
C9_Witness ==
  /\ pc = "returned"
  /\ ~echo
  /\ NoEos
  /\ total_generation_steps = 1
  /\ \E i, j \in Rows :
       /\ num_input_tokens[i] = 1 /\ out_tokens[i] = << BOS, PAD >>
       /\ num_input_tokens[j] = 2 /\ out_tokens[j] = << BOS >>

\* k copies of PAD.
Pads(k) == [j \in 1 .. k |-> PAD]

\* C10: in a batch of one sequence, when the first EOS the policy chooses is
\* generated token k <= total_generation_steps, the row is done, the loop takes
\* no further step, and the echo=false output is the first k generated tokens
\* (EOS last, kept) followed by PAD up to total_generation_steps tokens.
C10_StopOnEos ==
  (Started /\ Cardinality(Rows) = 1) =>
    \A k \in 1 .. total_generation_steps :
      (/\ Len(gen[1]) >= k
       /\ gen[1][k] = EOS
       /\ \A j \in 1 .. (k - 1) : gen[1][j] # EOS)
      => /\ done[1]
         /\ Len(gen[1]) = k
         /\ steps = num_input_tokens[1] + k - 1
         /\ decoding_step = steps
         /\ (pc = "returned" /\ ~echo) =>
              out_tokens[1] = SubSeq(gen[1], 1, k) \o Pads(total_generation_steps - k)

\* EOS as generated token 2 of 3: the output is [tok1, EOS, PAD].
C10_Witness ==
  /\ pc = "returned"
  /\ ~echo
  /\ Cardinality(Rows) = 1
  /\ total_generation_steps = 3
  /\ num_input_tokens[1] = 2
  /\ out_tokens[1] = << BOS, EOS, PAD >>

\* C16: a step is taken exactly when decoding_step < total_sampling_steps and
\* some sequence is not done; at loop exit the budget is used up or every
\* sequence is done; and every row, a done one included, is fed to the model
\* and written at each step taken.
C16_LockStep ==
  /\ [][LET go == /\ decoding_step < total_sampling_steps
                  /\ \E i \in Rows : ~done[i]
        IN  /\ StepTaken => (pc = "loop" /\ go)
            /\ (pc = "loop" /\ pc' = "returned") => ~go
            /\ (pc = "loop" /\ go) => (StepTaken /\ pc' = "loop")]_vars
  /\ [](pc = "returned" =>
          \/ decoding_step = total_sampling_steps
          \/ \A i \in Rows : done[i])
  /\ [](Started =>
          \A i \in Rows :
            /\ Len(cache[i]) = decoding_step
            /\ Len(gen[i]) = Max(0, decoding_step - num_input_tokens[i] + 1)
            /\ \A c \in num_input_tokens[i] .. decoding_step :
                 token_buffer[i][c] = gen[i][c - num_input_tokens[i] + 1])

\* The loop is about to step a batch with a done row that it has already
\* stepped since the row was done.
C16_Witness ==
  /\ pc = "loop"
  /\ decoding_step < total_sampling_steps
  /\ \E i \in Rows : ~done[i]
  /\ \E i \in Rows :
       /\ done[i]
       /\ \E e \in 1 .. (decoding_step - 1) : token_buffer[i][e] = EOS
       /\ decoding_step >= num_input_tokens[i]

\* C17: done[i] is true exactly when EOS occurs in columns 1 .. decoding_step
\* of row i, an EOS replayed from the prompt included.
C17_DoneIffEosWritten ==
  Started =>
    \A i \in Rows :
      done[i] <=> \E c \in 1 .. decoding_step : token_buffer[i][c] = EOS

\* A row done by an EOS replayed from its prompt, before any candidate was
\* written into it, beside a row that is not done.
C17_Witness ==
  /\ Started
  /\ \E i \in Rows :
       /\ done[i]
       /\ \E c \in 1 .. (num_input_tokens[i] - 1) : all_input_ids[i][c + 1] = EOS
       /\ Len(gen[i]) = 0
  /\ \E i \in Rows : ~done[i]

\* C18: a step from decoding_step = d adds 1 to decoding_step, changes
\* token_buffer and logits_buffer in column d + 1 only, which lies inside the
\* buffer, and leaves num_input_tokens, positions, total_sampling_steps,
\* forbidden_token_ids and the buffer shapes as they are.
C18_StepFrame ==
  [][StepTaken =>
       /\ decoding_step' = decoding_step + 1
       /\ decoding_step + 1 <= total_sampling_steps
       /\ total_sampling_steps = BufferLength - 1
       /\ DOMAIN token_buffer' = DOMAIN token_buffer
       /\ \A i \in DOMAIN token_buffer :
            /\ DOMAIN token_buffer'[i] = 0 .. total_sampling_steps
            /\ DOMAIN token_buffer[i] = 0 .. total_sampling_steps
            /\ DOMAIN positions[i] = 0 .. total_sampling_steps
            /\ \A c \in 0 .. total_sampling_steps :
                 c # decoding_step + 1 => token_buffer'[i][c] = token_buffer[i][c]
       /\ (logits_buffer = NoBuffer) <=> (logits_buffer' = NoBuffer)
       /\ logits_buffer # NoBuffer =>
            /\ DOMAIN logits_buffer' = DOMAIN logits_buffer
            /\ \A i \in DOMAIN logits_buffer :
                 /\ DOMAIN logits_buffer'[i] = 0 .. total_sampling_steps
                 /\ \A c \in 0 .. total_sampling_steps :
                      c # decoding_step + 1 => logits_buffer'[i][c] = logits_buffer[i][c]
       /\ UNCHANGED << num_input_tokens, positions, total_sampling_steps,
                       forbidden_token_ids >>]_vars

\* A step with logit capture has changed the last column of a row.
C18_Witness ==
  /\ pc = "loop"
  /\ logits_buffer # NoBuffer
  /\ decoding_step = total_sampling_steps
  /\ \E i \in Rows : token_buffer[i][decoding_step] \notin {PAD, EOS}

\* The logits the claim expects of a step on row i: the transformer's, with
\* the forbidden entries at -inf.
ExpectedLogits(i) ==
  [v \in Vocab |->
     IF IsForbidden(v)
       THEN NegInf
       ELSE RawLogits(token_buffer[i][decoding_step], positions[i][decoding_step],
                      cache[i], StepAttentionMask[i])[v]]

\* C20: with logit capture a step at decoding_step = d stores the masked
\* logits of that step in logits_buffer[:, d + 1], the column token_buffer is
\* written at, during prompt replay too; column 0 keeps its zeros; without
\* capture logits_buffer is absent in every state.
C20_LogitCapture ==
  /\ [](Started =>
          /\ return_logits =>
               /\ logits_buffer # NoBuffer
               /\ \A i \in Rows : \A v \in Vocab : logits_buffer[i][0][v] = 0
          /\ ~return_logits => logits_buffer = NoBuffer)
  /\ [][(StepTaken /\ return_logits) =>
          \A i \in DOMAIN token_buffer :
            /\ logits_buffer'[i][decoding_step + 1] = ExpectedLogits(i)
            /\ \A c \in 0 .. total_sampling_steps :
                 token_buffer'[i][c] # token_buffer[i][c] => c = decoding_step + 1]_vars

\* Logits captured while a prompt was replayed, with a forbidden id at -inf.
C20_Witness ==
  /\ Started
  /\ return_logits
  /\ \E i \in Rows :
       /\ num_input_tokens[i] = 2
       /\ decoding_step >= 1
       /\ \E v \in Vocab : logits_buffer[i][1][v] = NegInf
       /\ \E v \in Vocab : logits_buffer[i][1][v] # NegInf

\* C19: for every step s of a call, window W and buffer length L,
\* _compute_attention_masks gives row b, slot j of 0 .. W-1 the value
\* (j <= s) /\ v(b, j), where v(b, j) is input_mask[b, max(s-W+1, 0) + j] for
\* j < min(L, W) and the placeholder true for the other slots; a placeholder
\* slot is never attendable; the call changes nothing else.
C19_AttentionMask ==
  /\ [](pc = "attended" =>
          LET s == decoding_step
              W == cache_length
              L == total_sampling_steps + 1
              input_mask(b, c) == token_buffer[b][c] # PAD
              v(b, j) ==
                IF j < Min(L, W) THEN input_mask(b, Max(s - W + 1, 0) + j) ELSE TRUE
          IN  /\ DOMAIN attention_mask = DOMAIN token_buffer
              /\ \A b \in DOMAIN token_buffer :
                   /\ DOMAIN attention_mask[b] = 0 .. (W - 1)
                   /\ \A j \in 0 .. (W - 1) :
                        /\ attention_mask[b][j] = ((j <= s) /\ v(b, j))
                        /\ j >= Min(L, W) => ~attention_mask[b][j])
  /\ [][pc = "attend" =>
          UNCHANGED << token_buffer, decoding_step, total_sampling_steps, cache_length,
                       self_rng, rng, cache, done, positions, logits_buffer >>]_vars

\* A window shorter than the buffer that has slid past a pad slot, over a
\* row with an attendable and a non-attendable slot.
C19_Witness ==
  /\ pc = "attended"
  /\ cache_length < total_sampling_steps + 1
  /\ decoding_step >= cache_length + 1
  /\ \E b \in DOMAIN token_buffer :
       /\ token_buffer[b][0] = PAD
       /\ \E j \in 0 .. (cache_length - 1) : attention_mask[b][j]
       /\ \E j \in 0 .. (cache_length - 1) : ~attention_mask[b][j]

\* The forbidden_tokens argument of the call holds a string whose encoding
\* is not one id.
MalformedArgument(arg) ==
  arg.given /\ \E k \in 1 .. Len(arg.strs) : Len(arg.strs[k]) # 1

\* C11: a call whose forbidden_tokens holds a string that does not encode to
\* exactly one id raises before a prompt is tokenized, a sampling state is
\* built or a step is run; it leaves the stored rng as it was and returns
\* nothing.  A call without such a string goes on to the loop.
C11_ConfigErrorIsClean ==
  /\ [][(pc = "idle" /\ pc' # "idle") =>
          IF MalformedArgument(forbidden_tokens')
            THEN /\ pc' = "raised"
                 /\ UNCHANGED << self_rng, all_input_ids, token_buffer, cache, done,
                                 decoding_step, rng, logits_buffer, steps, policy_keys,
                                 masked_token_buffer, out_tokens, out_logits >>
            ELSE pc' = "loop"]_vars
  /\ []((pc = "raised" /\ MalformedArgument(forbidden_tokens)) =>
          /\ all_input_ids = << >>
          /\ token_buffer = << >>
          /\ cache = << >>
          /\ steps = 0
          /\ out_tokens = << >>
          /\ out_logits = << >>)

\* A call raised on the second string of its list, on a Sampler whose stored
\* rng an earlier call had advanced.
C11_Witness ==
  /\ pc = "raised"
  /\ MalformedArgument(forbidden_tokens)
  /\ Len(forbidden_tokens.strs) = 2
  /\ calls = 2
  /\ self_rng # PRNGKey

\* C13 as stated: over every sequence of calls, aborted ones included, no key
\* is handed to the sampling policy twice, and no key handed to the policy is
\* the rng of a sampling state or the stored rng.
C13_NoStreamReuse ==
  /\ ~key_reused
  /\ self_rng \notin policy_keys
  /\ Started => rng \notin policy_keys

\* C14: the stored rng changes only when a call leaves its finished loop, to
\* the rng of the final sampling state; every completed call changes it so;
\* init_sample_state, the steps and the aborting calls leave it as it is.
C14_StoredRngWrittenOnce ==
  [][/\ self_rng' # self_rng =>
          /\ pc = "loop"
          /\ pc' = "returned"
          /\ ~(decoding_step < total_sampling_steps /\ \E i \in Rows : ~done[i])
          /\ self_rng' = rng
     /\ (pc = "loop" /\ pc' = "returned") =>
          /\ self_rng' = rng
          /\ self_rng' # self_rng
          /\ rng' = rng
     /\ pc' \in {"raised", "loop", "idle"} => self_rng' = self_rng]_vars

\* The second call has completed and written its final rng, after a first
\* call that had taken steps and aborted without writing.
C14_Witness ==
  /\ pc = "returned"
  /\ calls = 2
  /\ self_rng = rng
  /\ Len(self_rng) = steps
  /\ key_reused

\* The rng a call started from: its state's rng is that key split once per
\* step taken.
StartRng(state_rng, taken) == SubSeq(state_rng, 1, Len(state_rng) - taken)

\* The sampling state and the outputs of the first call.
CallState ==
  << decoding_step, num_input_tokens, token_buffer, positions, cache, done,
     total_sampling_steps, logits_buffer, forbidden_token_ids, rng,
     masked_token_buffer, out_tokens, out_logits >>

\* C15: under every interleaving of two calls on one Sampler, the buffers,
\* done flags, step counter and cache of a call are changed by that call
\* only and the stored rng is what the calls share; a call that reads the
\* stored rng before the other call has written its final rng starts from
\* the other call's start key, and their steps then hand the policy the same
\* keys; calls that are serialized start from different keys and reuse none.
C15_SharedRngOnly ==
  /\ [][/\ call2' # call2 => UNCHANGED << pc, CallState >>
        /\ (pc' # pc \/ CallState' # CallState) => call2' = call2
        /\ (call2.pc = "idle" /\ call2'.pc = "loop") =>
             /\ call2'.rng = self_rng
             /\ pc = "loop" => call2'.rng = StartRng(rng, steps)
             /\ pc = "returned" => call2'.rng # StartRng(rng, steps)
        /\ (pc = "idle" /\ pc' = "loop") =>
             /\ rng' = self_rng
             /\ call2.pc = "loop" => rng' = StartRng(call2.rng, call2.decoding_step)
             /\ call2.pc = "returned" => rng' # StartRng(call2.rng, call2.decoding_step)]_vars
  /\ []((Started /\ call2.pc # "idle") =>
          IF StartRng(rng, steps) = StartRng(call2.rng, call2.decoding_step)
            THEN (steps >= 1 /\ call2.decoding_step >= 1) => key_reused
            ELSE ~key_reused)

\* Both calls are in their loops at once, have stepped, and wrote different
\* tokens into their own buffers from the same key.
C15_Witness ==
  /\ pc = "loop"
  /\ call2.pc = "loop"
  /\ steps >= 1
  /\ call2.decoding_step >= 1
  /\ rng = call2.rng
  /\ key_reused
  /\ token_buffer[1][1] # call2.token_buffer[1][1]

====
